---- MODULE Spec2Model ----
(***************************************************************************)
(* Treap-topic/Treapmap.cpp: TreapMap (int -> string) and TreapSet (int),  *)
(* two randomized binary search trees over heap-allocated nodes.           *)
(*                                                                         *)
(* The free store is a function from the addresses of the live nodes to    *)
(* their contents; a Node* is an address, or NULL.  Every recursive helper *)
(* threads a machine record m through its calls:                           *)
(*    m.heap   the free store                                              *)
(*    m.count  TreapSet::nodeCount (left alone by the TreapMap helpers)    *)
(*    m.made   addresses handed out by `new`, in order                     *)
(*    m.freed  addresses passed to `delete`, in order                      *)
(*    m.rots   rotations performed, in order                               *)
(*    m.fault  a null or dangling pointer was dereferenced or deleted      *)
(* and returns [m |-> the machine afterwards, ret |-> the C++ result].     *)
(*                                                                         *)
(* main makes the public calls one after the other.  When a call returns   *)
(* (pc = "ret"), op holds the call and its result, pre the object's fields *)
(* and the free store as they were before it, and made, freed and rots the *)
(* machine's logs of it.                                                   *)
(***************************************************************************)
EXTENDS Integers, Sequences, FiniteSets, TLC

\* Bounds of the model.
MaxKey == 4
MaxPriority == 3
NumValues == 2

NULL == 0
Keys == 1..MaxKey
\* rand() yields one of finitely many ints; two calls may yield the same one.
Priorities == 1..MaxPriority
\* A Value (std::string) is one of NumValues strings that get stored, numbered from
\* 1; NA is a string that is never stored, such as "N/A".
Values == 1..NumValues
NA == 0
Defaults == Values \cup {NA}
\* As many cells as there are keys: `new` never runs out while keys are unique.
Addr == 1..MaxKey

VARIABLES obj, alive, pc, root, heap, nodeCount, op, pre, made, freed, rots, fault, card

vars == <<obj, alive, pc, root, heap, nodeCount, op, pre, made, freed, rots, fault, card>>

----------------------------------------------------------------------------
\* The machine at the start of a public call.
Start(h, c) ==
  [heap |-> h, count |-> c, made |-> <<>>, freed |-> <<>>, rots |-> <<>>, fault |-> FALSE]

\* Dereferencing p is defined only for the address of a live node.
Valid(m, p) == p \in DOMAIN m.heap

Crash(m) == [m |-> [m EXCEPT !.fault = TRUE], ret |-> NULL]

\* `delete node` left out: the node stays allocated.
Delete_forgotten(m, node) ==
  IF ~Valid(m, node) THEN [m EXCEPT !.fault = TRUE] ELSE m

\* `delete node`
Delete(m, node) ==
  IF ~Valid(m, node) THEN [m EXCEPT !.fault = TRUE]
  ELSE [m EXCEPT !.heap = [a \in (DOMAIN m.heap) \ {node} |-> m.heap[a]],
                 !.freed = Append(@, node)]

----------------------------------------------------------------------------
\* TreapMap

\* Node(Key k, Value v): priority = rand()
MapNode(k, v, p) ==
  [key |-> k, value |-> v, priority |-> p, left |-> NULL, right |-> NULL]

\* rotateRight returning y, the node that went down, not x.
TreapMap_rotateRight_returnsY(m, y) ==
  IF ~Valid(m, y) THEN Crash(m)
  ELSE LET x == m.heap[y].left
           logged == [m EXCEPT !.rots = Append(@, [fn |-> "rotateRight", at |-> y, child |-> x])]
       IN IF ~Valid(m, x) THEN Crash(logged)
          ELSE LET T2 == m.heap[x].right
               IN [m |-> [logged EXCEPT !.heap[x].right = y, !.heap[y].left = T2],
                   ret |-> y]

TreapMap_rotateRight(m, y) ==
  IF ~Valid(m, y) THEN Crash(m)
  ELSE LET x == m.heap[y].left
           logged == [m EXCEPT !.rots = Append(@, [fn |-> "rotateRight", at |-> y, child |-> x])]
       IN IF ~Valid(m, x) THEN Crash(logged)
          ELSE LET T2 == m.heap[x].right
               IN [m |-> [logged EXCEPT !.heap[x].right = y, !.heap[y].left = T2],
                   ret |-> x]

TreapMap_rotateLeft(m, x) ==
  IF ~Valid(m, x) THEN Crash(m)
  ELSE LET y == m.heap[x].right
           logged == [m EXCEPT !.rots = Append(@, [fn |-> "rotateLeft", at |-> x, child |-> y])]
       IN IF ~Valid(m, y) THEN Crash(logged)
          ELSE LET T2 == m.heap[y].left
               IN [m |-> [logged EXCEPT !.heap[y].left = x, !.heap[x].right = T2],
                   ret |-> y]

RECURSIVE TreapMap_insertRecursive(_, _, _, _, _, _)
\* insertRecursive with a plain `else` for the right branch: an equal key goes right.
TreapMap_insertRecursive_equalGoesRight(m, node, key, value, prio, addr) ==
  IF node = NULL
  THEN IF addr = NULL THEN Crash(m)
       ELSE
       [m |-> [m EXCEPT !.heap = (addr :> MapNode(key, value, prio)) @@ @,
                        !.made = Append(@, addr)],
        ret |-> addr]
  ELSE IF ~Valid(m, node) THEN Crash(m)
  ELSE IF key < m.heap[node].key
  THEN LET r == TreapMap_insertRecursive(m, m.heap[node].left, key, value, prio, addr)
           m1 == [r.m EXCEPT !.heap[node].left = r.ret]
       IN IF r.m.fault THEN r
          ELSE IF r.ret # NULL /\ m1.heap[r.ret].priority > m1.heap[node].priority
               THEN TreapMap_rotateRight(m1, node)
               ELSE [m |-> m1, ret |-> node]
  ELSE LET r == TreapMap_insertRecursive(m, m.heap[node].right, key, value, prio, addr)
           m1 == [r.m EXCEPT !.heap[node].right = r.ret]
       IN IF r.m.fault THEN r
          ELSE IF r.ret # NULL /\ m1.heap[r.ret].priority > m1.heap[node].priority
               THEN TreapMap_rotateLeft(m1, node)
               ELSE [m |-> m1, ret |-> node]

\* insertRecursive rotating also when the child's priority equals the node's.
TreapMap_insertRecursive_rotatesOnTie(m, node, key, value, prio, addr) ==
  IF node = NULL
  THEN IF addr = NULL THEN Crash(m)
       ELSE
       [m |-> [m EXCEPT !.heap = (addr :> MapNode(key, value, prio)) @@ @,
                        !.made = Append(@, addr)],
        ret |-> addr]
  ELSE IF ~Valid(m, node) THEN Crash(m)
  ELSE IF key < m.heap[node].key
  THEN LET r == TreapMap_insertRecursive(m, m.heap[node].left, key, value, prio, addr)
           m1 == [r.m EXCEPT !.heap[node].left = r.ret]
       IN IF r.m.fault THEN r
          ELSE IF r.ret # NULL /\ m1.heap[r.ret].priority >= m1.heap[node].priority
               THEN TreapMap_rotateRight(m1, node)
               ELSE [m |-> m1, ret |-> node]
  ELSE IF key > m.heap[node].key
  THEN LET r == TreapMap_insertRecursive(m, m.heap[node].right, key, value, prio, addr)
           m1 == [r.m EXCEPT !.heap[node].right = r.ret]
       IN IF r.m.fault THEN r
          ELSE IF r.ret # NULL /\ m1.heap[r.ret].priority >= m1.heap[node].priority
               THEN TreapMap_rotateLeft(m1, node)
               ELSE [m |-> m1, ret |-> node]
  ELSE [m |-> [m EXCEPT !.heap[node].value = value], ret |-> node]

\* prio is what rand() returns and addr what `new` returns, should a node be built.
TreapMap_insertRecursive(m, node, key, value, prio, addr) ==
  IF node = NULL
  THEN IF addr = NULL THEN Crash(m)   \* std::bad_alloc
       ELSE
       [m |-> [m EXCEPT !.heap = (addr :> MapNode(key, value, prio)) @@ @,
                        !.made = Append(@, addr)],
        ret |-> addr]
  ELSE IF ~Valid(m, node) THEN Crash(m)
  ELSE IF key < m.heap[node].key
  THEN LET r == TreapMap_insertRecursive(m, m.heap[node].left, key, value, prio, addr)
           m1 == [r.m EXCEPT !.heap[node].left = r.ret]
       IN IF r.m.fault THEN r
          ELSE IF r.ret # NULL /\ m1.heap[r.ret].priority > m1.heap[node].priority
               THEN TreapMap_rotateRight(m1, node)
               ELSE [m |-> m1, ret |-> node]
  ELSE IF key > m.heap[node].key
  THEN LET r == TreapMap_insertRecursive(m, m.heap[node].right, key, value, prio, addr)
           m1 == [r.m EXCEPT !.heap[node].right = r.ret]
       IN IF r.m.fault THEN r
          ELSE IF r.ret # NULL /\ m1.heap[r.ret].priority > m1.heap[node].priority
               THEN TreapMap_rotateLeft(m1, node)
               ELSE [m |-> m1, ret |-> node]
  ELSE [m |-> [m EXCEPT !.heap[node].value = value], ret |-> node]

RECURSIVE TreapMap_removeRecursive(_, _, _)
\* removeRecursive rotating a node with two children toward the child of lower
\* priority.
TreapMap_removeRecursive_lowerChildUp(m, node, key) ==
  IF node = NULL THEN [m |-> m, ret |-> NULL]
  ELSE IF ~Valid(m, node) THEN Crash(m)
  ELSE IF key < m.heap[node].key
  THEN LET r == TreapMap_removeRecursive(m, m.heap[node].left, key)
       IN IF r.m.fault THEN r
          ELSE [m |-> [r.m EXCEPT !.heap[node].left = r.ret], ret |-> node]
  ELSE IF key > m.heap[node].key
  THEN LET r == TreapMap_removeRecursive(m, m.heap[node].right, key)
       IN IF r.m.fault THEN r
          ELSE [m |-> [r.m EXCEPT !.heap[node].right = r.ret], ret |-> node]
  ELSE IF m.heap[node].left = NULL
  THEN [m |-> Delete(m, node), ret |-> m.heap[node].right]
  ELSE IF m.heap[node].right = NULL
  THEN [m |-> Delete(m, node), ret |-> m.heap[node].left]
  ELSE IF ~Valid(m, m.heap[node].left) \/ ~Valid(m, m.heap[node].right) THEN Crash(m)
  ELSE IF m.heap[m.heap[node].left].priority < m.heap[m.heap[node].right].priority
  THEN LET t == TreapMap_rotateRight(m, node)
           r == TreapMap_removeRecursive(t.m, t.m.heap[t.ret].right, key)
       IN IF t.m.fault THEN t
          ELSE IF r.m.fault THEN r
          ELSE [m |-> [r.m EXCEPT !.heap[t.ret].right = r.ret], ret |-> t.ret]
  ELSE LET t == TreapMap_rotateLeft(m, node)
           r == TreapMap_removeRecursive(t.m, t.m.heap[t.ret].left, key)
       IN IF t.m.fault THEN t
          ELSE IF r.m.fault THEN r
          ELSE [m |-> [r.m EXCEPT !.heap[t.ret].left = r.ret], ret |-> t.ret]

\* removeRecursive without the branch for a larger key: whatever is not smaller
\* counts as found.
TreapMap_removeRecursive_noRightBranch(m, node, key) ==
  IF node = NULL THEN [m |-> m, ret |-> NULL]
  ELSE IF ~Valid(m, node) THEN Crash(m)
  ELSE IF key < m.heap[node].key
  THEN LET r == TreapMap_removeRecursive(m, m.heap[node].left, key)
       IN IF r.m.fault THEN r
          ELSE [m |-> [r.m EXCEPT !.heap[node].left = r.ret], ret |-> node]
  ELSE IF m.heap[node].left = NULL
  THEN [m |-> Delete(m, node), ret |-> m.heap[node].right]
  ELSE IF m.heap[node].right = NULL
  THEN [m |-> Delete(m, node), ret |-> m.heap[node].left]
  ELSE IF ~Valid(m, m.heap[node].left) \/ ~Valid(m, m.heap[node].right) THEN Crash(m)
  ELSE IF m.heap[m.heap[node].left].priority > m.heap[m.heap[node].right].priority
  THEN LET t == TreapMap_rotateRight(m, node)
           r == TreapMap_removeRecursive(t.m, t.m.heap[t.ret].right, key)
       IN IF t.m.fault THEN t
          ELSE IF r.m.fault THEN r
          ELSE [m |-> [r.m EXCEPT !.heap[t.ret].right = r.ret], ret |-> t.ret]
  ELSE LET t == TreapMap_rotateLeft(m, node)
           r == TreapMap_removeRecursive(t.m, t.m.heap[t.ret].left, key)
       IN IF t.m.fault THEN t
          ELSE IF r.m.fault THEN r
          ELSE [m |-> [r.m EXCEPT !.heap[t.ret].left = r.ret], ret |-> t.ret]

TreapMap_removeRecursive(m, node, key) ==
  IF node = NULL THEN [m |-> m, ret |-> NULL]
  ELSE IF ~Valid(m, node) THEN Crash(m)
  ELSE IF key < m.heap[node].key
  THEN LET r == TreapMap_removeRecursive(m, m.heap[node].left, key)
       IN IF r.m.fault THEN r
          ELSE [m |-> [r.m EXCEPT !.heap[node].left = r.ret], ret |-> node]
  ELSE IF key > m.heap[node].key
  THEN LET r == TreapMap_removeRecursive(m, m.heap[node].right, key)
       IN IF r.m.fault THEN r
          ELSE [m |-> [r.m EXCEPT !.heap[node].right = r.ret], ret |-> node]
  ELSE IF m.heap[node].left = NULL
  THEN [m |-> Delete(m, node), ret |-> m.heap[node].right]
  ELSE IF m.heap[node].right = NULL
  THEN [m |-> Delete(m, node), ret |-> m.heap[node].left]
  ELSE IF ~Valid(m, m.heap[node].left) \/ ~Valid(m, m.heap[node].right) THEN Crash(m)
  ELSE IF m.heap[m.heap[node].left].priority > m.heap[m.heap[node].right].priority
  THEN LET t == TreapMap_rotateRight(m, node)
           r == TreapMap_removeRecursive(t.m, t.m.heap[t.ret].right, key)
       IN IF t.m.fault THEN t
          ELSE IF r.m.fault THEN r
          ELSE [m |-> [r.m EXCEPT !.heap[t.ret].right = r.ret], ret |-> t.ret]
  ELSE LET t == TreapMap_rotateLeft(m, node)
           r == TreapMap_removeRecursive(t.m, t.m.heap[t.ret].left, key)
       IN IF t.m.fault THEN t
          ELSE IF r.m.fault THEN r
          ELSE [m |-> [r.m EXCEPT !.heap[t.ret].left = r.ret], ret |-> t.ret]

RECURSIVE TreapMap_findNode(_, _, _)
\* findNode descending to the right for a smaller key and to the left for a larger.
TreapMap_findNode_wrongWay(m, node, key) ==
  IF node = NULL THEN [m |-> m, ret |-> NULL]
  ELSE IF ~Valid(m, node) THEN Crash(m)
  ELSE IF key = m.heap[node].key THEN [m |-> m, ret |-> node]
  ELSE IF key < m.heap[node].key
  THEN TreapMap_findNode(m, m.heap[node].right, key)
  ELSE TreapMap_findNode(m, m.heap[node].left, key)

TreapMap_findNode(m, node, key) ==
  IF node = NULL THEN [m |-> m, ret |-> NULL]
  ELSE IF ~Valid(m, node) THEN Crash(m)
  ELSE IF key = m.heap[node].key THEN [m |-> m, ret |-> node]
  ELSE IF key < m.heap[node].key
  THEN TreapMap_findNode(m, m.heap[node].left, key)
  ELSE TreapMap_findNode(m, m.heap[node].right, key)

RECURSIVE TreapMap_clearRecursive(_, _)
\* clearRecursive deleting the node before it walks the right subtree.
TreapMap_clearRecursive_deletesEarly(m, node) ==
  IF node = NULL THEN m
  ELSE IF ~Valid(m, node) THEN [m EXCEPT !.fault = TRUE]
  ELSE LET m1 == TreapMap_clearRecursive(m, m.heap[node].left)
       IN IF ~Valid(m1, node) THEN [m1 EXCEPT !.fault = TRUE]
          ELSE TreapMap_clearRecursive(Delete(m1, node), m1.heap[node].right)

TreapMap_clearRecursive(m, node) ==
  IF node = NULL THEN m
  ELSE IF ~Valid(m, node) THEN [m EXCEPT !.fault = TRUE]
  ELSE LET m1 == TreapMap_clearRecursive(m, m.heap[node].left)
       IN IF ~Valid(m1, node) THEN [m1 EXCEPT !.fault = TRUE]
          ELSE Delete(TreapMap_clearRecursive(m1, m1.heap[node].right), node)

\* The public methods take t, the object's fields with the free store it owns.
TreapMap_clear(t) ==
  [m |-> TreapMap_clearRecursive(Start(t.heap, t.nodeCount), t.root), root |-> NULL, ret |-> NULL]

TreapMap_insert(t, key, value, prio, addr) ==
  LET r == TreapMap_insertRecursive(Start(t.heap, t.nodeCount), t.root, key, value, prio, addr)
  IN [m |-> r.m, root |-> r.ret, ret |-> NULL]

TreapMap_remove(t, key) ==
  LET r == TreapMap_removeRecursive(Start(t.heap, t.nodeCount), t.root, key)
  IN [m |-> r.m, root |-> r.ret, ret |-> NULL]

\* find without the test for nullptr: result->value is read whatever result is.
TreapMap_find_noNullCheck(t, key, defaultValue) ==
  LET result == TreapMap_findNode(Start(t.heap, t.nodeCount), t.root, key)
  IN IF ~Valid(result.m, result.ret)
     THEN [m |-> [result.m EXCEPT !.fault = TRUE], root |-> t.root, ret |-> defaultValue]
     ELSE [m |-> result.m, root |-> t.root, ret |-> result.m.heap[result.ret].value]

TreapMap_find(t, key, defaultValue) ==
  LET result == TreapMap_findNode(Start(t.heap, t.nodeCount), t.root, key)
  IN IF result.ret = NULL
     THEN [m |-> result.m, root |-> t.root, ret |-> defaultValue]
     ELSE [m |-> result.m, root |-> t.root, ret |-> result.m.heap[result.ret].value]

TreapMap_contains(t, key) ==
  LET result == TreapMap_findNode(Start(t.heap, t.nodeCount), t.root, key)
  IN [m |-> result.m, root |-> t.root, ret |-> (result.ret # NULL)]

----------------------------------------------------------------------------
\* TreapSet

\* Node(int k): priority = rand()
SetNode(k, p) == [key |-> k, priority |-> p, left |-> NULL, right |-> NULL]

\* rotateRight hanging x's left subtree, not its right one, under y.
TreapSet_rotateRight_leftSubtree(m, y) ==
  IF ~Valid(m, y) THEN Crash(m)
  ELSE LET x == m.heap[y].left
           logged == [m EXCEPT !.rots = Append(@, [fn |-> "rotateRight", at |-> y, child |-> x])]
       IN IF ~Valid(m, x) THEN Crash(logged)
          ELSE LET T2 == m.heap[x].left
               IN [m |-> [logged EXCEPT !.heap[x].right = y, !.heap[y].left = T2],
                   ret |-> x]

TreapSet_rotateRight(m, y) ==
  IF ~Valid(m, y) THEN Crash(m)
  ELSE LET x == m.heap[y].left
           logged == [m EXCEPT !.rots = Append(@, [fn |-> "rotateRight", at |-> y, child |-> x])]
       IN IF ~Valid(m, x) THEN Crash(logged)
          ELSE LET T2 == m.heap[x].right
               IN [m |-> [logged EXCEPT !.heap[x].right = y, !.heap[y].left = T2],
                   ret |-> x]

\* rotateLeft returning x, the node that went down, not y.
TreapSet_rotateLeft_returnsX(m, x) ==
  IF ~Valid(m, x) THEN Crash(m)
  ELSE LET y == m.heap[x].right
           logged == [m EXCEPT !.rots = Append(@, [fn |-> "rotateLeft", at |-> x, child |-> y])]
       IN IF ~Valid(m, y) THEN Crash(logged)
          ELSE LET T2 == m.heap[y].left
               IN [m |-> [logged EXCEPT !.heap[y].left = x, !.heap[x].right = T2],
                   ret |-> x]

TreapSet_rotateLeft(m, x) ==
  IF ~Valid(m, x) THEN Crash(m)
  ELSE LET y == m.heap[x].right
           logged == [m EXCEPT !.rots = Append(@, [fn |-> "rotateLeft", at |-> x, child |-> y])]
       IN IF ~Valid(m, y) THEN Crash(logged)
          ELSE LET T2 == m.heap[y].left
               IN [m |-> [logged EXCEPT !.heap[y].left = x, !.heap[x].right = T2],
                   ret |-> y]

RECURSIVE TreapSet_insertRecursive(_, _, _, _, _)
\* insertRecursive calling rotateLeft, as in the right branch, also in the left one.
TreapSet_insertRecursive_rotateLeftTwice(m, node, key, prio, addr) ==
  IF node = NULL
  THEN IF addr = NULL THEN Crash([m EXCEPT !.count = @ + 1])
       ELSE
       [m |-> [m EXCEPT !.count = @ + 1,
                        !.heap = (addr :> SetNode(key, prio)) @@ @,
                        !.made = Append(@, addr)],
        ret |-> addr]
  ELSE IF ~Valid(m, node) THEN Crash(m)
  ELSE IF key < m.heap[node].key
  THEN LET r == TreapSet_insertRecursive(m, m.heap[node].left, key, prio, addr)
           m1 == [r.m EXCEPT !.heap[node].left = r.ret]
       IN IF r.m.fault THEN r
          ELSE IF r.ret # NULL /\ m1.heap[r.ret].priority > m1.heap[node].priority
               THEN TreapSet_rotateLeft(m1, node)
               ELSE [m |-> m1, ret |-> node]
  ELSE IF key > m.heap[node].key
  THEN LET r == TreapSet_insertRecursive(m, m.heap[node].right, key, prio, addr)
           m1 == [r.m EXCEPT !.heap[node].right = r.ret]
       IN IF r.m.fault THEN r
          ELSE IF r.ret # NULL /\ m1.heap[r.ret].priority > m1.heap[node].priority
               THEN TreapSet_rotateLeft(m1, node)
               ELSE [m |-> m1, ret |-> node]
  ELSE [m |-> m, ret |-> node]

TreapSet_insertRecursive(m, node, key, prio, addr) ==
  IF node = NULL
  THEN IF addr = NULL THEN Crash([m EXCEPT !.count = @ + 1])   \* std::bad_alloc
       ELSE
       [m |-> [m EXCEPT !.count = @ + 1,
                        !.heap = (addr :> SetNode(key, prio)) @@ @,
                        !.made = Append(@, addr)],
        ret |-> addr]
  ELSE IF ~Valid(m, node) THEN Crash(m)
  ELSE IF key < m.heap[node].key
  THEN LET r == TreapSet_insertRecursive(m, m.heap[node].left, key, prio, addr)
           m1 == [r.m EXCEPT !.heap[node].left = r.ret]
       IN IF r.m.fault THEN r
          ELSE IF r.ret # NULL /\ m1.heap[r.ret].priority > m1.heap[node].priority
               THEN TreapSet_rotateRight(m1, node)
               ELSE [m |-> m1, ret |-> node]
  ELSE IF key > m.heap[node].key
  THEN LET r == TreapSet_insertRecursive(m, m.heap[node].right, key, prio, addr)
           m1 == [r.m EXCEPT !.heap[node].right = r.ret]
       IN IF r.m.fault THEN r
          ELSE IF r.ret # NULL /\ m1.heap[r.ret].priority > m1.heap[node].priority
               THEN TreapSet_rotateLeft(m1, node)
               ELSE [m |-> m1, ret |-> node]
  ELSE [m |-> m, ret |-> node]

RECURSIVE TreapSet_removeRecursive(_, _, _)
\* removeRecursive going on, after either rotation, in the subtree the node did not
\* go to.
TreapSet_removeRecursive_wrongSide(m, node, key) ==
  IF node = NULL THEN [m |-> m, ret |-> NULL]
  ELSE IF ~Valid(m, node) THEN Crash(m)
  ELSE IF key < m.heap[node].key
  THEN LET r == TreapSet_removeRecursive(m, m.heap[node].left, key)
       IN IF r.m.fault THEN r
          ELSE [m |-> [r.m EXCEPT !.heap[node].left = r.ret], ret |-> node]
  ELSE IF key > m.heap[node].key
  THEN LET r == TreapSet_removeRecursive(m, m.heap[node].right, key)
       IN IF r.m.fault THEN r
          ELSE [m |-> [r.m EXCEPT !.heap[node].right = r.ret], ret |-> node]
  ELSE IF m.heap[node].left = NULL
  THEN [m |-> [Delete(m, node) EXCEPT !.count = @ - 1], ret |-> m.heap[node].right]
  ELSE IF m.heap[node].right = NULL
  THEN [m |-> [Delete(m, node) EXCEPT !.count = @ - 1], ret |-> m.heap[node].left]
  ELSE IF ~Valid(m, m.heap[node].left) \/ ~Valid(m, m.heap[node].right) THEN Crash(m)
  ELSE IF m.heap[m.heap[node].left].priority > m.heap[m.heap[node].right].priority
  THEN LET t == TreapSet_rotateRight(m, node)
           r == TreapSet_removeRecursive(t.m, t.m.heap[t.ret].left, key)
       IN IF t.m.fault THEN t
          ELSE IF r.m.fault THEN r
          ELSE [m |-> [r.m EXCEPT !.heap[t.ret].left = r.ret], ret |-> t.ret]
  ELSE LET t == TreapSet_rotateLeft(m, node)
           r == TreapSet_removeRecursive(t.m, t.m.heap[t.ret].right, key)
       IN IF t.m.fault THEN t
          ELSE IF r.m.fault THEN r
          ELSE [m |-> [r.m EXCEPT !.heap[t.ret].right = r.ret], ret |-> t.ret]

TreapSet_removeRecursive(m, node, key) ==
  IF node = NULL THEN [m |-> m, ret |-> NULL]
  ELSE IF ~Valid(m, node) THEN Crash(m)
  ELSE IF key < m.heap[node].key
  THEN LET r == TreapSet_removeRecursive(m, m.heap[node].left, key)
       IN IF r.m.fault THEN r
          ELSE [m |-> [r.m EXCEPT !.heap[node].left = r.ret], ret |-> node]
  ELSE IF key > m.heap[node].key
  THEN LET r == TreapSet_removeRecursive(m, m.heap[node].right, key)
       IN IF r.m.fault THEN r
          ELSE [m |-> [r.m EXCEPT !.heap[node].right = r.ret], ret |-> node]
  ELSE IF m.heap[node].left = NULL
  THEN [m |-> [Delete(m, node) EXCEPT !.count = @ - 1], ret |-> m.heap[node].right]
  ELSE IF m.heap[node].right = NULL
  THEN [m |-> [Delete(m, node) EXCEPT !.count = @ - 1], ret |-> m.heap[node].left]
  ELSE IF ~Valid(m, m.heap[node].left) \/ ~Valid(m, m.heap[node].right) THEN Crash(m)
  ELSE IF m.heap[m.heap[node].left].priority > m.heap[m.heap[node].right].priority
  THEN LET t == TreapSet_rotateRight(m, node)
           r == TreapSet_removeRecursive(t.m, t.m.heap[t.ret].right, key)
       IN IF t.m.fault THEN t
          ELSE IF r.m.fault THEN r
          ELSE [m |-> [r.m EXCEPT !.heap[t.ret].right = r.ret], ret |-> t.ret]
  ELSE LET t == TreapSet_rotateLeft(m, node)
           r == TreapSet_removeRecursive(t.m, t.m.heap[t.ret].left, key)
       IN IF t.m.fault THEN t
          ELSE IF r.m.fault THEN r
          ELSE [m |-> [r.m EXCEPT !.heap[t.ret].left = r.ret], ret |-> t.ret]

RECURSIVE TreapSet_memberRecursive(_, _, _)
TreapSet_memberRecursive(m, node, key) ==
  IF node = NULL THEN [m |-> m, ret |-> FALSE]
  ELSE IF ~Valid(m, node) THEN [m |-> [m EXCEPT !.fault = TRUE], ret |-> FALSE]
  ELSE IF key = m.heap[node].key THEN [m |-> m, ret |-> TRUE]
  ELSE IF key < m.heap[node].key
  THEN TreapSet_memberRecursive(m, m.heap[node].left, key)
  ELSE TreapSet_memberRecursive(m, m.heap[node].right, key)

RECURSIVE TreapSet_clearRecursive(_, _)
TreapSet_clearRecursive(m, node) ==
  IF node = NULL THEN m
  ELSE IF ~Valid(m, node) THEN [m EXCEPT !.fault = TRUE]
  ELSE LET m1 == TreapSet_clearRecursive(m, m.heap[node].left)
       IN IF ~Valid(m1, node) THEN [m1 EXCEPT !.fault = TRUE]
          ELSE Delete(TreapSet_clearRecursive(m1, m1.heap[node].right), node)

\* clear() without `nodeCount = 0`.
TreapSet_clear_keepsCount(t) ==
  [m |-> TreapSet_clearRecursive(Start(t.heap, t.nodeCount), t.root),
   root |-> NULL, ret |-> NULL]

TreapSet_clear(t) ==
  [m |-> [TreapSet_clearRecursive(Start(t.heap, t.nodeCount), t.root) EXCEPT !.count = 0],
   root |-> NULL, ret |-> NULL]

TreapSet_size(t) ==
  [m |-> Start(t.heap, t.nodeCount), root |-> t.root, ret |-> t.nodeCount]

TreapSet_member(t, key) ==
  LET r == TreapSet_memberRecursive(Start(t.heap, t.nodeCount), t.root, key)
  IN [m |-> r.m, root |-> t.root, ret |-> r.ret]

TreapSet_insert(t, key, prio, addr) ==
  IF ~TreapSet_member(t, key).ret
  THEN LET r == TreapSet_insertRecursive(Start(t.heap, t.nodeCount), t.root, key, prio, addr)
       IN [m |-> r.m, root |-> r.ret, ret |-> NULL]
  ELSE [m |-> Start(t.heap, t.nodeCount), root |-> t.root, ret |-> NULL]

TreapSet_remove(t, key) ==
  IF TreapSet_member(t, key).ret
  THEN LET r == TreapSet_removeRecursive(Start(t.heap, t.nodeCount), t.root, key)
       IN [m |-> r.m, root |-> r.ret, ret |-> NULL]
  ELSE [m |-> Start(t.heap, t.nodeCount), root |-> t.root, ret |-> NULL]

----------------------------------------------------------------------------
\* The program: one object, a TreapMap or a TreapSet, and the calls made on it.

This == [root |-> root, heap |-> heap, nodeCount |-> nodeCount]

NoCall == [name |-> "new", key |-> 0, value |-> 0, dflt |-> 0, ret |-> 0]

\* The addresses `new` may return; NULL stands for a failed allocation.
FreeAddr == IF Addr \ DOMAIN heap = {} THEN {NULL} ELSE Addr \ DOMAIN heap

\* The nodes reachable from p by left/right links that point at live nodes.
RECURSIVE Closure(_, _)
Closure(h, S) ==
  LET T == S \cup (({h[a].left : a \in S} \cup {h[a].right : a \in S}) \cap DOMAIN h)
  IN IF T = S THEN S ELSE Closure(h, T)

Reach(h, p) == Closure(h, {p} \cap DOMAIN h)

KeysIn(h, p) == {h[a].key : a \in Reach(h, p)}

\* The program treats an address as an opaque name: it compares addresses with
\* NULL only, never with each other by order.  A state is therefore kept up to a
\* renaming of the addresses, the one that numbers the nodes of the tree in
\* pre-order from the root, then the other cells in increasing order.
RECURSIVE Preorder(_, _, _)
Preorder(h, p, fuel) ==
  IF p \notin DOMAIN h \/ fuel = 0 THEN <<>>
  ELSE <<p>> \o Preorder(h, h[p].left, fuel - 1) \o Preorder(h, h[p].right, fuel - 1)

RECURSIVE Distinct(_)
Distinct(s) ==
  IF s = <<>> THEN <<>>
  ELSE LET t == Distinct(SubSeq(s, 1, Len(s) - 1))
       IN IF \E i \in 1..Len(t) : t[i] = s[Len(s)] THEN t ELSE Append(t, s[Len(s)])

RECURSIVE Ascending(_)
Ascending(S) ==
  IF S = {} THEN <<>>
  ELSE LET a == CHOOSE x \in S : \A y \in S : x <= y IN <<a>> \o Ascending(S \ {a})

Naming(h, p) ==
  LET walk == Distinct(Preorder(h, p, Cardinality(Addr)))
      order == walk \o Ascending(Addr \ {walk[i] : i \in 1..Len(walk)})
  IN [a \in Addr \cup {NULL} |->
        IF a = NULL THEN NULL ELSE CHOOSE i \in 1..Len(order) : order[i] = a]

RenameHeap(n, h) ==
  [b \in {n[a] : a \in DOMAIN h} |->
     LET a == CHOOSE x \in DOMAIN h : n[x] = b
     IN [h[a] EXCEPT !.left = n[@], !.right = n[@]]]

RenameSeq(n, s) == [i \in 1..Len(s) |-> n[s[i]]]

\* A public call returned r: the object takes its new fields, the call is logged.
Return(name, key, value, dflt, result) ==
  \E r \in {result} : \E n \in {Naming(r.m.heap, r.root)} :
     /\ root' = n[r.root]
     /\ heap' = RenameHeap(n, r.m.heap)
     /\ nodeCount' = r.m.count
     /\ made' = RenameSeq(n, r.m.made)
     /\ freed' = RenameSeq(n, r.m.freed)
     /\ rots' = [i \in 1..Len(r.m.rots) |->
                   [r.m.rots[i] EXCEPT !.at = n[@], !.child = n[@]]]
     /\ fault' = r.m.fault
     /\ pre' = [root |-> n[root], heap |-> RenameHeap(n, heap), nodeCount |-> nodeCount]
     /\ op' = [name |-> name, key |-> key, value |-> value, dflt |-> dflt, ret |-> r.ret]
     /\ pc' = "ret"
     /\ UNCHANGED obj

\* main is about to call a method of the object, which is still in scope.
Running(class) == obj = class /\ alive /\ ~fault /\ pc = "call"

\* main has looked at what the call returned and goes on to its next statement.
Continue ==
  /\ pc = "ret" /\ alive /\ ~fault
  /\ pc' = "call"
  /\ op' = NoCall
  /\ pre' = This
  /\ made' = <<>>
  /\ freed' = <<>>
  /\ rots' = <<>>
  /\ UNCHANGED <<obj, alive, root, heap, nodeCount, fault, card>>

Map_insert ==
  /\ Running("TreapMap")
  /\ \E key \in Keys, value \in Values, prio \in Priorities, addr \in FreeAddr :
       Return("insert", key, value, 0, TreapMap_insert(This, key, value, prio, addr))
  /\ UNCHANGED <<alive, card>>

Map_remove ==
  /\ Running("TreapMap")
  /\ \E key \in Keys : Return("remove", key, 0, 0, TreapMap_remove(This, key))
  /\ UNCHANGED <<alive, card>>

Map_find ==
  /\ Running("TreapMap")
  /\ \E key \in Keys, d \in Defaults : Return("find", key, 0, d, TreapMap_find(This, key, d))
  /\ UNCHANGED <<alive, card>>

Map_contains ==
  /\ Running("TreapMap")
  /\ \E key \in Keys : Return("contains", key, 0, 0, TreapMap_contains(This, key))
  /\ UNCHANGED <<alive, card>>

Map_clear ==
  /\ Running("TreapMap")
  /\ Return("clear", 0, 0, 0, TreapMap_clear(This))
  /\ UNCHANGED <<alive, card>>

\* ~TreapMap(): clear(), and the object is gone.
Map_destructor ==
  /\ Running("TreapMap")
  /\ Return("~", 0, 0, 0, TreapMap_clear(This))
  /\ alive' = FALSE
  /\ UNCHANGED card

\* card counts, since the last clear, the inserts of a key that was not stored
\* minus the removes of a key that was stored.
Set_insert ==
  /\ Running("TreapSet")
  /\ \E key \in Keys, prio \in Priorities, addr \in FreeAddr :
       /\ Return("insert", key, 0, 0, TreapSet_insert(This, key, prio, addr))
       /\ card' = IF key \in KeysIn(heap, root) THEN card ELSE card + 1
  /\ UNCHANGED alive

Set_remove ==
  /\ Running("TreapSet")
  /\ \E key \in Keys :
       /\ Return("remove", key, 0, 0, TreapSet_remove(This, key))
       /\ card' = IF key \in KeysIn(heap, root) THEN card - 1 ELSE card
  /\ UNCHANGED alive

Set_member ==
  /\ Running("TreapSet")
  /\ \E key \in Keys : Return("member", key, 0, 0, TreapSet_member(This, key))
  /\ UNCHANGED <<alive, card>>

Set_size ==
  /\ Running("TreapSet")
  /\ Return("size", 0, 0, 0, TreapSet_size(This))
  /\ UNCHANGED <<alive, card>>

Set_clear ==
  /\ Running("TreapSet")
  /\ Return("clear", 0, 0, 0, TreapSet_clear(This))
  /\ card' = 0
  /\ UNCHANGED alive

\* ~TreapSet(): clear(), and the object is gone.
Set_destructor ==
  /\ Running("TreapSet")
  /\ Return("~", 0, 0, 0, TreapSet_clear(This))
  /\ alive' = FALSE
  /\ card' = 0

\* TreapMap() / TreapSet(): root = nullptr (and nodeCount = 0) on an empty free store.
Init ==
  /\ obj \in {"TreapMap", "TreapSet"}
  /\ alive = TRUE
  /\ root = NULL
  /\ heap = <<>>
  /\ nodeCount = 0
  /\ op = NoCall
  /\ pre = [root |-> NULL, heap |-> <<>>, nodeCount |-> 0]
  /\ made = <<>>
  /\ freed = <<>>
  /\ rots = <<>>
  /\ fault = FALSE
  /\ card = 0
  /\ pc = "call"

Next ==
  \/ Map_insert
  \/ Map_remove
  \/ Map_find
  \/ Map_contains
  \/ Map_clear
  \/ Map_destructor
  \/ Set_insert
  \/ Set_remove
  \/ Set_member
  \/ Set_size
  \/ Set_clear
  \/ Set_destructor
  \/ Continue

Spec == Init /\ [][Next]_vars

----------------------------------------------------------------------------
\* What the claims speak of.

\* The keys met by an in-order walk from p (cut off below the deepest possible node).
RECURSIVE Inorder(_, _, _)
Inorder(h, p, fuel) ==
  IF p \notin DOMAIN h \/ fuel = 0 THEN <<>>
  ELSE Inorder(h, h[p].left, fuel - 1) \o <<h[p].key>> \o Inorder(h, h[p].right, fuel - 1)

StrictlyIncreasing(s) == \A i \in 1..(Len(s) - 1) : s[i] < s[i + 1]

\* The nodes of the tree and the present children of a node.
Nodes == Reach(heap, root)
Children(h, a) == {h[a].left, h[a].right} \ {NULL}
Stored == KeysIn(heap, root)
StoredBefore == KeysIn(pre.heap, pre.root)
\* The node of the tree before the call that holds the key of the call.
Target == CHOOSE a \in Reach(pre.heap, pre.root) : pre.heap[a].key = op.key

\* Keys to ask about: those that are ever inserted and one on either side of them.
AnyKey == 0..(MaxKey + 1)

Returned(name) == pc = "ret" /\ op.name = name

\* The queries, asked of the object as it is.
IsMember(t, k) ==
  IF obj = "TreapSet" THEN TreapSet_member(t, k).ret ELSE TreapMap_contains(t, k).ret

\* C1: an in-order traversal of the tree yields keys in strictly increasing order
\* after every public operation of TreapSet and of TreapMap.
C1_InorderStrictlyIncreasing ==
  StrictlyIncreasing(Inorder(heap, root, MaxKey + 1))

C1_Witness ==
  /\ Returned("remove") /\ Len(rots) >= 2
  /\ Cardinality(Nodes) = MaxKey - 1

\* Every node's priority is strictly greater than / at least that of each present child.
HeapStrict ==
  \A a \in Nodes : \A c \in Children(heap, a) \cap DOMAIN heap :
     heap[a].priority > heap[c].priority

HeapOrdered ==
  \A a \in Nodes : \A c \in Children(heap, a) \cap DOMAIN heap :
     heap[a].priority >= heap[c].priority

\* C2 as stated: after every public operation every node's priority is strictly
\* greater than the priority of each of its present children, also when two nodes
\* drew the same priority.
C2_StrictHeapAlways == HeapStrict

\* C2 as amended: every node's priority is at least the priority of each of its
\* present children, and strictly greater than that of a child whose priority
\* differs from its own; so the order is strict when no two nodes of the tree drew
\* the same priority.
C2_HeapOrderStrictUnlessTied ==
  /\ HeapOrdered
  /\ (\A a, b \in Nodes : a # b => heap[a].priority # heap[b].priority) => HeapStrict

C2_Witness ==
  /\ Returned("remove") /\ Len(rots) >= 2
  /\ \E a \in Nodes : \E c \in Children(heap, a) : heap[a].priority = heap[c].priority
  /\ \E a \in Nodes : \E c \in Children(heap, a) : heap[a].priority > heap[c].priority

\* C3: size() of a TreapSet is never negative, is the number of nodes reachable from
\* root, and is the number of inserts of a key not stored minus the number of removes
\* of a key stored since the last clear (card).
C3_SizeIsNodeCount ==
  obj = "TreapSet" =>
    /\ TreapSet_size(This).ret >= 0
    /\ TreapSet_size(This).ret = Cardinality(Nodes)
    /\ TreapSet_size(This).ret = card

\* A remove that found its key, after an insert of a stored key and a remove of a
\* key not stored could have happened, leaves two of the keys.
C3_Witness ==
  /\ obj = "TreapSet" /\ Returned("remove")
  /\ freed # <<>> /\ rots # <<>>
  /\ nodeCount = 2 /\ card = 2

\* The queries answer as the traversal of the tree says.
Absent(t, k) ==
  /\ ~IsMember(t, k)
  /\ obj = "TreapMap" => \A d \in Defaults : TreapMap_find(t, k, d).ret = d

\* C4: a key that is not stored is no member (contains is false, find returns the
\* default); right after insert(k) resp. insert(k, v), member(k) resp. contains(k)
\* is true and find(k, d) returns v for every d.
C4_MembershipRoundTrip ==
  /\ \A k \in AnyKey \ Stored : Absent(This, k)
  /\ Returned("insert") =>
       /\ IsMember(This, op.key)
       /\ obj = "TreapMap" => \A d \in Defaults : TreapMap_find(This, op.key, d).ret = op.value

\* A new key went in below the root of a tree and was rotated up; a key is missing.
C4_Witness ==
  /\ Returned("insert") /\ made # <<>> /\ rots # <<>>
  /\ obj = "TreapMap"
  /\ root # made[1]
  /\ Cardinality(Stored) = MaxKey - 1

\* C5: after remove(k) the key k is absent, and size() of a TreapSet has gone down
\* by 1 if k was stored before the call and by 0 if not.
C5_RemoveRemoves ==
  Returned("remove") =>
    /\ Absent(This, op.key)
    /\ obj = "TreapSet" =>
         TreapSet_size(This).ret =
           pre.nodeCount - (IF op.key \in StoredBefore THEN 1 ELSE 0)

\* Number of children the removed node had, and whether it was the root.
C5_Case(n, atRoot) ==
  /\ Returned("remove") /\ op.key \in StoredBefore
  /\ Cardinality(Children(pre.heap, Target)) = n
  /\ (Target = pre.root) = atRoot

\* The removed node had two children and was not the root.
C5_Witness == C5_Case(2, FALSE)

\* The logs of a call that built, destroyed and rotated nothing.
Quiet == made = <<>> /\ freed = <<>> /\ rots = <<>> /\ ~fault

\* The object and its nodes are as before the call.
Untouched == root = pre.root /\ heap = pre.heap /\ nodeCount = pre.nodeCount

\* C6: TreapMap::insert(k, v2) of a stored key k changes only the value in k's node:
\* find(k, d) returns v2, no node is added, every priority and link is as before.
C6_OverwriteInPlace ==
  (obj = "TreapMap" /\ Returned("insert") /\ op.key \in StoredBefore) =>
    /\ \A d \in Defaults : TreapMap_find(This, op.key, d).ret = op.value
    /\ root = pre.root
    /\ heap = [pre.heap EXCEPT ![Target].value = op.value]
    /\ Quiet

\* Another value went into a node below the root that has its parent's priority.
C6_Witness ==
  /\ obj = "TreapMap" /\ Returned("insert") /\ op.key \in StoredBefore
  /\ pre.heap[Target].value # op.value
  /\ \E a \in Nodes : /\ Target \in Children(heap, a)
                      /\ heap[a].priority = heap[Target].priority

\* What insert of the key and value of the call just returned does to the object now.
InsertAgain(prio, addr) ==
  IF obj = "TreapSet" THEN TreapSet_insert(This, op.key, prio, addr)
  ELSE TreapMap_insert(This, op.key, op.value, prio, addr)

\* The call just returned was given a key already stored (TreapMap: with the value
\* already bound to it), as the second of two equal inserts in a row is.
Repeated ==
  /\ Returned("insert") /\ op.key \in StoredBefore
  /\ obj = "TreapMap" => pre.heap[Target].value = op.value

\* C7: a second insert with the same arguments, right after the first, leaves the
\* tree as the first left it (nodes, keys, values, priorities, links, size), builds
\* no node and so draws no priority.
C7_InsertIdempotent ==
  /\ Returned("insert") =>
       \A prio \in Priorities, addr \in FreeAddr :
          LET r == InsertAgain(prio, addr)
          IN /\ r.root = root
             /\ r.m.heap = heap
             /\ r.m.count = nodeCount
             /\ r.m.made = <<>> /\ r.m.freed = <<>> /\ r.m.rots = <<>> /\ ~r.m.fault
  /\ Repeated => Untouched /\ Quiet

\* The repeated insert went down to a node below the root that has its parent's
\* priority.
C7_Witness ==
  /\ Repeated
  /\ \E a \in Nodes : /\ Target \in Children(heap, a)
                      /\ heap[a].priority = heap[Target].priority

\* C8: remove(k) of a key that is not stored leaves the whole tree as it was: root,
\* nodes, links, values, priorities, size; nothing is rotated or destroyed.
C8_RemoveAbsentNoOp ==
  (Returned("remove") /\ op.key \notin StoredBefore) => Untouched /\ Quiet

\* The key is missing from a tree of MaxKey - 1 keys, and would belong between two.
C8_Witness ==
  /\ Returned("remove") /\ op.key \notin StoredBefore
  /\ Cardinality(StoredBefore) = MaxKey - 1
  /\ \E j, k \in StoredBefore : j < op.key /\ op.key < k

IsQuery == pc = "ret" /\ op.name \in {"find", "contains", "member", "size"}

\* C9: find, contains, member and size change nothing (no node, link, value,
\* priority or count, no rotation); find of a key that is not stored returns the
\* default it was given, and no query runs into an error.
C9_QueriesPure ==
  IsQuery =>
    /\ Untouched /\ Quiet
    /\ (op.name = "find" /\ op.key \notin Stored) => op.ret = op.dflt
    /\ (op.name = "find" /\ op.key \in Stored) => op.ret = pre.heap[Target].value
    /\ (op.name \in {"contains", "member"}) => op.ret = (op.key \in Stored)
    /\ op.name = "size" => op.ret = pre.nodeCount

\* find of a missing key, with a default that some node holds as its value.
C9_Witness ==
  /\ Returned("find") /\ op.key \notin Stored
  /\ Cardinality(Nodes) >= 2
  /\ \E a \in Nodes : heap[a].value = op.dflt

\* The place of address a in the sequence s, 0 if it is not there.
Place(s, a) == IF \E i \in 1..Len(s) : s[i] = a THEN CHOOSE i \in 1..Len(s) : s[i] = a ELSE 0

\* What insert of key k (with value v) does to the object now, and what member
\* resp. contains says of k after it.
InsertNow(k, v, prio, addr) ==
  IF obj = "TreapSet" THEN TreapSet_insert(This, k, prio, addr)
  ELSE TreapMap_insert(This, k, v, prio, addr)

After(r) == [root |-> r.root, heap |-> r.m.heap, nodeCount |-> r.m.count]

\* C10: clear() releases every node of the tree exactly once, a node only after
\* both of its children, and leaves root empty and size() 0, so that no key is a
\* member; on an empty tree clear(), also the destructor's, releases nothing; after
\* clear() insert works again.
C10_Clear ==
  (pc = "ret" /\ op.name \in {"clear", "~"}) =>
    /\ ~fault
    /\ {freed[i] : i \in 1..Len(freed)} = Reach(pre.heap, pre.root)
    /\ \A i, j \in 1..Len(freed) : freed[i] = freed[j] => i = j
    /\ \A a \in Reach(pre.heap, pre.root) : \A c \in Children(pre.heap, a) :
          Place(freed, c) # 0 /\ Place(freed, c) < Place(freed, a)
    /\ DOMAIN heap = DOMAIN pre.heap \ Reach(pre.heap, pre.root)
    /\ root = NULL
    /\ obj = "TreapSet" => TreapSet_size(This).ret = 0
    /\ \A k \in AnyKey : Absent(This, k)
    /\ pre.root = NULL => freed = <<>>
    /\ op.name = "clear" =>
         \A k \in Keys, v \in Values, prio \in Priorities, addr \in FreeAddr :
            LET r == InsertNow(k, v, prio, addr)
            IN /\ ~r.m.fault
               /\ IsMember(After(r), k)
               /\ \A j \in AnyKey \ {k} : ~IsMember(After(r), j)
               /\ obj = "TreapSet" => TreapSet_size(After(r)).ret = 1

\* clear() took down a tree of MaxKey nodes whose root had two children.
C10_Witness ==
  /\ Returned("clear")
  /\ Len(freed) = MaxKey
  /\ Cardinality(Children(pre.heap, pre.root)) = 2

\* clear() resp. the destructor found the tree empty.
C10_SecondClear(name) == Returned(name) /\ pre.root = NULL

\* The elements of a sequence, and whether none occurs twice in it.
Range(s) == {s[i] : i \in 1..Len(s)}
NoRepeat(s) == \A i, j \in 1..Len(s) : s[i] = s[j] => i = j

\* C11: after every public operation the nodes created and not yet destroyed are the
\* nodes reachable from root, each by exactly one path (a tree: no cycle, no node
\* under two parents); a node is created only by an insert of a key not stored and
\* destroyed only by the remove of its key or by clear, never twice; no destroyed
\* node is read or linked afterwards.
C11_NodeLifecycle ==
  /\ ~fault
  /\ DOMAIN heap = Nodes
  /\ root \in DOMAIN heap \cup {NULL}
  /\ \A a \in DOMAIN heap : Children(heap, a) \subseteq DOMAIN heap
  /\ Len(Preorder(heap, root, MaxKey + 1)) = Cardinality(Nodes)
  /\ NoRepeat(made) /\ NoRepeat(freed)
  /\ Range(freed) \subseteq DOMAIN pre.heap
  /\ Range(made) \cap DOMAIN pre.heap = {}
  /\ DOMAIN heap = (DOMAIN pre.heap \ Range(freed)) \cup Range(made)
  /\ made # <<>> =>
       /\ Returned("insert") /\ op.key \notin StoredBefore
       /\ Len(made) = 1 /\ heap[made[1]].key = op.key
  /\ freed # <<>> =>
       \/ /\ Returned("remove")
          /\ Len(freed) = 1 /\ pre.heap[freed[1]].key = op.key
       \/ pc = "ret" /\ op.name \in {"clear", "~"}

\* A node with two children, below the root, was rotated down and destroyed by
\* remove; three nodes live on.
C11_Witness ==
  /\ C5_Case(2, FALSE) /\ rots # <<>>
  /\ Len(freed) = 1
  /\ Cardinality(DOMAIN heap) = MaxKey - 1

\* C12: in every insert and remove, rotateRight(y) is only called with y->left
\* non-empty and rotateLeft(x) only with x->right non-empty: each rotation logged
\* found the child it lifts, and no null pointer was dereferenced.
C12_RotationsHaveChild ==
  /\ \A i \in 1..Len(rots) : rots[i].at # NULL /\ rots[i].child # NULL
  /\ rots # <<>> => ~fault /\ pc = "ret" /\ op.name \in {"insert", "remove"}

\* One call made a rotateRight and a rotateLeft.
C12_Witness ==
  /\ \E i \in 1..Len(rots) : rots[i].fn = "rotateRight"
  /\ \E i \in 1..Len(rots) : rots[i].fn = "rotateLeft"

\* Calls of either kind with a rotation of either kind.
C12_Case(name, fn) == Returned(name) /\ \E i \in 1..Len(rots) : rots[i].fn = fn

\* rotateRight / rotateLeft of the object's class, applied to node a of free store h.
RotateRight(h, a) ==
  IF obj = "TreapSet" THEN TreapSet_rotateRight(Start(h, 0), a)
  ELSE TreapMap_rotateRight(Start(h, 0), a)

RotateLeft(h, a) ==
  IF obj = "TreapSet" THEN TreapSet_rotateLeft(Start(h, 0), a)
  ELSE TreapMap_rotateLeft(Start(h, 0), a)

\* The free store with the priorities pr in place of those drawn.
WithPriorities(h, pr) == [a \in DOMAIN h |-> [h[a] EXCEPT !.priority = pr[a]]]

\* h2 is h but for the links named: the left link of a and the right link of b.
OnlyRelinked(h, h2, a, b) ==
  /\ DOMAIN h2 = DOMAIN h
  /\ \A c \in DOMAIN h :
       /\ h2[c] = [h[c] EXCEPT !.left = h2[c].left, !.right = h2[c].right]
       /\ c # a => h2[c].left = h[c].left
       /\ c # b => h2[c].right = h[c].right

\* rotateRight(y), with x the left child of y, does what C13 says.
RotatesRightWell(h, y) ==
  LET x == h[y].left
      r == RotateRight(h, y)
  IN /\ ~r.m.fault
     /\ r.ret = x
     /\ r.m.heap[y].left = h[x].right
     /\ r.m.heap[x].right = y
     /\ OnlyRelinked(h, r.m.heap, y, x)
     /\ Reach(r.m.heap, r.ret) = Reach(h, y)
     /\ Inorder(r.m.heap, r.ret, MaxKey + 1) = Inorder(h, y, MaxKey + 1)

\* rotateLeft(x), with y the right child of x, does what C13 says.
RotatesLeftWell(h, x) ==
  LET y == h[x].right
      r == RotateLeft(h, x)
  IN /\ ~r.m.fault
     /\ r.ret = y
     /\ r.m.heap[x].right = h[y].left
     /\ r.m.heap[y].left = x
     /\ OnlyRelinked(h, r.m.heap, y, x)
     /\ Reach(r.m.heap, r.ret) = Reach(h, x)
     /\ Inorder(r.m.heap, r.ret, MaxKey + 1) = Inorder(h, x, MaxKey + 1)

\* C13: on every subtree in search-tree order whose required child is present,
\* rotateRight(y) returns y's former left child x, with x's former right subtree as
\* y's left subtree and y as x's right child, and rotateLeft does the mirror image;
\* the subtree returned has the same nodes and the same in-order key sequence,
\* whatever the priorities of the nodes are.
C13_RotationsKeepOrder ==
  pc = "call" =>
    \A pr \in [DOMAIN heap -> Priorities] :
       LET h == WithPriorities(heap, pr)
       IN \A a \in Nodes :
            /\ h[a].left # NULL => RotatesRightWell(h, a)
            /\ h[a].right # NULL => RotatesLeftWell(h, a)

\* A tree of MaxKey nodes in which a node below the root has a left child with a
\* right subtree, and a node has a right child with a left subtree.
C13_Witness ==
  /\ pc = "call" /\ Cardinality(Nodes) = MaxKey
  /\ \E a \in Nodes \ {root} : heap[a].left # NULL /\ heap[heap[a].left].right # NULL
  /\ \E a \in Nodes : heap[a].right # NULL /\ heap[heap[a].right].left # NULL

\* The tree in the course of a remove.  removeRecursive changes the tree, before it
\* destroys the node, by its rotations alone, all of them at the node to be removed.
\* Rotated(i) is the tree after the first i of them: the free store (heap), the
\* root (root), and what the i-th rotation returned (ret), which removeRecursive
\* puts in the place of the node when the recursion unwinds.
Holder(h, rt, a) ==
  IF rt = a THEN NULL ELSE CHOOSE c \in DOMAIN h : a \in Children(h, c)

RECURSIVE Rotated(_)
Rotated(i) ==
  IF i = 0 THEN [heap |-> pre.heap, root |-> pre.root, ret |-> NULL]
  ELSE LET was == Rotated(i - 1)
           r == IF rots[i].fn = "rotateRight"
                THEN RotateRight(was.heap, Target) ELSE RotateLeft(was.heap, Target)
           c == Holder(was.heap, was.root, Target)
       IN [heap |-> IF c = NULL THEN r.m.heap
                    ELSE IF was.heap[c].left = Target
                    THEN [r.m.heap EXCEPT ![c].left = r.ret]
                    ELSE [r.m.heap EXCEPT ![c].right = r.ret],
           root |-> IF c = NULL THEN r.ret ELSE was.root,
           ret |-> r.ret]

\* The number of nodes of the subtree of h at a.
Size(h, a) == Cardinality(Reach(h, a))

\* The distance of node a from p by left/right links; -1 if a is not below p.
RECURSIVE Depth(_, _, _, _)
Depth(h, p, a, fuel) ==
  IF p = a THEN 0
  ELSE IF p \notin DOMAIN h \/ fuel = 0 THEN -1
  ELSE LET l == Depth(h, h[p].left, a, fuel - 1)
           r == Depth(h, h[p].right, a, fuel - 1)
       IN IF l >= 0 THEN l + 1 ELSE IF r >= 0 THEN r + 1 ELSE -1

Found == Returned("remove") /\ op.key \in StoredBefore

\* What remove of key k does to the object now.
RemoveNow(k) ==
  IF obj = "TreapSet" THEN TreapSet_remove(This, k) ELSE TreapMap_remove(This, k)

\* C14: remove(key) finishes on every reachable tree and for every key; each
\* rotation is made at the node to be removed while it has two children, and is
\* followed by the recursive call on a subtree that is rooted at that node and has
\* strictly fewer nodes than the subtree had before the rotation; in the end the
\* node has at most one child and is destroyed, exactly once.
C14_RemoveTerminates ==
  /\ pc = "call" =>
       \A k \in AnyKey :
          /\ ~RemoveNow(k).m.fault
          /\ Len(RemoveNow(k).m.rots) + Len(RemoveNow(k).m.freed) <= Cardinality(Nodes)
  /\ Found =>
       /\ ~fault
       /\ \A i \in 1..Len(rots) :
            /\ rots[i].at = Target
            /\ Cardinality(Children(Rotated(i - 1).heap, Target)) = 2
            /\ Rotated(i).ret = rots[i].child
            /\ Target = IF rots[i].fn = "rotateRight"
                        THEN Rotated(i).heap[Rotated(i).ret].right
                        ELSE Rotated(i).heap[Rotated(i).ret].left
            /\ Size(Rotated(i).heap, Target) < Size(Rotated(i - 1).heap, Target)
       /\ Cardinality(Children(Rotated(Len(rots)).heap, Target)) <= 1
       /\ freed = <<Target>>

\* The node removed had two children also after the first rotation.
C14_Witness == Found /\ Len(rots) >= 2

\* The distance of the node to be removed from the root after i rotations.
TargetDepth(i) == Depth(Rotated(i).heap, Rotated(i).root, Target, MaxKey + 1)

\* The tree Rotated(Len(rots)) once the node, which has one child at most there, is
\* destroyed and that child put in its place.
Unhooked ==
  LET last == Rotated(Len(rots))
      c == Holder(last.heap, last.root, Target)
      below == IF last.heap[Target].left = NULL
               THEN last.heap[Target].right ELSE last.heap[Target].left
      rest == [a \in DOMAIN last.heap \ {Target} |-> last.heap[a]]
  IN [heap |-> IF c = NULL THEN rest
               ELSE IF last.heap[c].left = Target THEN [rest EXCEPT ![c].left = below]
               ELSE [rest EXCEPT ![c].right = below],
      root |-> IF c = NULL THEN below ELSE last.root]

\* C15 as stated: in remove's two-child case each rotation reduces the distance of
\* the node being removed from the root by one.
C15_RotationLiftsTarget ==
  Found => \A i \in 1..Len(rots) : TargetDepth(i) = TargetDepth(i - 1) - 1

\* C15 as amended: in remove's two-child case each rotation increases the distance
\* of the node being removed from the root by exactly one (the node goes down, the
\* child of higher priority takes its place), and the tree remove leaves is the tree
\* after the last rotation without the node.
C15_RotationLowersTarget ==
  Found =>
    /\ \A i \in 0..Len(rots) : TargetDepth(i) >= 0
    /\ \A i \in 1..Len(rots) : TargetDepth(i) = TargetDepth(i - 1) + 1
    /\ heap = Unhooked.heap /\ root = Unhooked.root

\* The node removed was below the root and was rotated down.
C15_Witness == Found /\ rots # <<>> /\ TargetDepth(0) >= 1

\* The node removed was rotated down twice.
C15_Twice == Found /\ Len(rots) >= 2 /\ TargetDepth(2) = 2

\* The node an insert of a key not stored has just created.
Created == made[1]
Grew == Returned("insert") /\ made # <<>>

\* C16: insert rotates a node only under a child of strictly higher priority, so a
\* child whose priority equals its parent's stays below it; and whatever priorities
\* collide, after every public operation the keys in order are strictly increasing
\* and every node's priority is at least that of each present child.
C16_TiesAreSafe ==
  /\ StrictlyIncreasing(Inorder(heap, root, MaxKey + 1))
  /\ HeapOrdered
  /\ Grew =>
       /\ \A i \in 1..Len(rots) :
            /\ rots[i].child = Created
            /\ heap[rots[i].at].priority < heap[Created].priority
       /\ \A a \in Nodes :
            (Created \in Children(heap, a) /\ heap[a].priority = heap[Created].priority)
               => \A i \in 1..Len(rots) : rots[i].at # a

\* A new node went up over a parent of lower priority and stopped below one of equal
\* priority.
C16_Witness ==
  /\ Grew /\ rots # <<>>
  /\ \E a \in Nodes :
       Created \in Children(heap, a) /\ heap[a].priority = heap[Created].priority

\* A new leaf stayed below a parent of equal priority.
C16_TiedLeaf ==
  /\ Grew /\ rots = <<>>
  /\ \E a \in Nodes :
       Created \in Children(heap, a) /\ heap[a].priority = heap[Created].priority

\* The nodes that were there before the call and still are.
Surviving == DOMAIN heap \cap DOMAIN pre.heap

\* What a caller can learn about key j from the tree t.
Asked(t, j) ==
  [member |-> IsMember(t, j),
   found |-> IF obj = "TreapMap"
             THEN [d \in Defaults |-> TreapMap_find(t, j, d).ret] ELSE <<>>]

\* C17: insert(k, ...) and remove(k) leave every other key as it was: for every key
\* j # k, member(j)/contains(j) and find(j, d) return after the call what they
\* returned before it; and every node that survives the call keeps its key and its
\* priority.
C17_FrameOnOtherKeys ==
  (pc = "ret" /\ op.name \in {"insert", "remove"}) =>
    /\ ~fault
    /\ \A j \in AnyKey \ {op.key} : Asked(This, j) = Asked(pre, j)
    /\ \A a \in Surviving :
         /\ heap[a].key = pre.heap[a].key
         /\ heap[a].priority = pre.heap[a].priority

\* A remove with a rotation left two keys bound to different values behind.
C17_Witness ==
  /\ obj = "TreapMap" /\ Found /\ rots # <<>>
  /\ \E a, b \in Surviving : heap[a].value # heap[b].value

\* An insert with a rotation, into a tree of keys bound to different values.
C17_Insert ==
  /\ obj = "TreapMap" /\ Grew /\ rots # <<>>
  /\ \E a, b \in Surviving : heap[a].value # heap[b].value

\* The tree below p as a value: <<>> if empty, else <<key, priority, left, right>>.
RECURSIVE Shape(_, _, _)
Shape(h, p, fuel) ==
  IF p \notin DOMAIN h \/ fuel = 0 THEN <<>>
  ELSE <<h[p].key, h[p].priority,
         Shape(h, h[p].left, fuel - 1), Shape(h, h[p].right, fuel - 1)>>

\* The treap of a set of <<key, priority>> pairs of distinct keys and distinct
\* priorities: the pair of highest priority on top, the treap of the pairs of smaller
\* keys to its left and that of the pairs of larger keys to its right.
RECURSIVE Treap(_)
Treap(S) ==
  IF S = {} THEN <<>>
  ELSE LET top == CHOOSE x \in S : \A y \in S : y[2] <= x[2]
       IN <<top[1], top[2],
            Treap({y \in S : y[1] < top[1]}), Treap({y \in S : y[1] > top[1]})>>

Pairs == {<<heap[a].key, heap[a].priority>> : a \in Nodes}
DistinctPriorities == \A a, b \in Nodes : heap[a].priority = heap[b].priority => a = b

\* C18: whenever the priorities of the nodes of the tree are pairwise distinct, the
\* tree is the one treap of its <<key, priority>> pairs, whatever calls led to it: in
\* whatever order the keys were inserted, and whatever other keys were inserted and
\* removed in between.
C18_ShapeFromPairsAlone ==
  DistinctPriorities =>
    /\ Cardinality(Pairs) = Cardinality(Nodes)
    /\ Shape(heap, root, MaxKey + 1) = Treap(Pairs)

\* A tree of as many nodes as there are priorities, all distinct, left by the remove
\* with a rotation of a fourth key whose priority was that of another node.
C18_Witness ==
  /\ Found /\ rots # <<>>
  /\ Cardinality(Nodes) = MaxPriority /\ DistinctPriorities
  /\ \E a \in Nodes : pre.heap[Target].priority = heap[a].priority

\* The same for an insert that rotated the new node up to the root.
C18_Insert ==
  /\ Grew /\ Len(rots) >= 2 /\ root = Created
  /\ Cardinality(Nodes) = MaxPriority /\ DistinctPriorities

====
